---- MODULE Spec2Model ----
(***************************************************************************)
(* e-SBE (StockSync): catalog synchronisation, local cache and cart.       *)
(*                                                                         *)
(* Modelled from src/utils.ts, src/services/syncService.ts, src/App.tsx    *)
(* and src/types.ts.  Strings are sequences of UTF-16 code units, objects  *)
(* are sequences of <<key, value>> pairs in insertion order (the order     *)
(* JSON.stringify walks), and localStorage maps each key to an absent or   *)
(* present text.                                                           *)
(***************************************************************************)
EXTENDS Integers, Sequences, FiniteSets, TLC

(***************************************************************************)
(* Bounds of the model.                                                    *)
(***************************************************************************)
\* most raw products in one group of a fetched catalog
MaxProducts == 2
\* the wall clock stops advancing here (seconds)
MaxClock == 1
\* longest group or product name of the enumerated calls of generateProductId
MaxLen == 2
\* most groups in a list normalizeData is called with
MaxGroups == 2
\* most entries of a cart handed to the export
MaxCart == 2

(***************************************************************************)
(* Strings: sequences of character codes.                                  *)
(***************************************************************************)
SPACE == 32
UNDERSCORE == 95

RECURSIVE TrimStart(_)
TrimStart(s) ==
    IF s # <<>> /\ Head(s) = SPACE THEN TrimStart(Tail(s)) ELSE s

RECURSIVE TrimEnd(_)
TrimEnd(s) ==
    IF s # <<>> /\ s[Len(s)] = SPACE THEN TrimEnd(SubSeq(s, 1, Len(s) - 1)) ELSE s

\* mutant: only the leading white space is removed
TrimLeadingOnly(s) == TrimStart(s)

\* String.prototype.trim (the only white space of the modelled alphabet is " ")
Trim(s) == TrimEnd(TrimStart(s))

\* String.prototype.toLowerCase on the modelled alphabet (ASCII)
ToLowerCase(s) == [i \in 1..Len(s) |-> IF s[i] >= 65 /\ s[i] <= 90 THEN s[i] + 32 ELSE s[i]]

(***************************************************************************)
(* JavaScript values and objects.                                          *)
(***************************************************************************)
Str(s) == [t |-> "str", s |-> s, n |-> 0]
Num(n) == [t |-> "num", s |-> <<>>, n |-> n]
Undefined == [t |-> "undef", s |-> <<>>, n |-> 0]

HasKey(o, k) == \E i \in 1..Len(o) : o[i][1] = k

\* property read o.k : undefined when the object has no such own property
Get(o, k) ==
    IF HasKey(o, k) THEN o[CHOOSE i \in 1..Len(o) : o[i][1] = k][2] ELSE Undefined

\* property definition in an object literal: an existing key keeps its place
Set(o, k, v) ==
    IF HasKey(o, k)
    THEN [i \in 1..Len(o) |-> IF o[i][1] = k THEN <<k, v>> ELSE o[i]]
    ELSE Append(o, <<k, v>>)

(***************************************************************************)
(* generateProductId, src/utils.ts:6-16.  The 32-bit accumulator is kept   *)
(* as two 16-bit halves <<hi, lo>> of its two's complement bit pattern.    *)
(***************************************************************************)
Half == 65536

\* mutant: hash = (hash << 5) + hash + char
HashStepAdding(h, c) ==
    LET lo == 33 * h[2] + c
        hi == 33 * h[1] + (lo \div Half)
    IN  <<hi % Half, lo % Half>>

\* hash = (hash << 5) - hash + char; hash = hash & hash
HashStep(h, c) ==
    LET lo == 31 * h[2] + c
        hi == 31 * h[1] + (lo \div Half)
    IN  <<hi % Half, lo % Half>>

RECURSIVE HashFrom(_, _)
HashFrom(h, s) ==
    IF s = <<>> THEN h ELSE HashFrom(HashStep(h, Head(s)), Tail(s))

\* the loop of lines 9-14 over the whole string, from hash = 0
HashOf(s) == HashFrom(<<0, 0>>, s)

IsNegative(h) == h[1] >= Half \div 2

\* Math.abs of the signed 32-bit value, again as halves (|-2^31| = 2^31)
AbsHash(h) ==
    IF IsNegative(h)
    THEN IF h[2] = 0 THEN <<(Half - h[1]) % Half, 0>>
                     ELSE <<Half - 1 - h[1], Half - h[2]>>
    ELSE h

HexDigit(d) == IF d < 10 THEN 48 + d ELSE 87 + d

Hex4(x) == << HexDigit(x \div 4096), HexDigit((x \div 256) % 16),
              HexDigit((x \div 16) % 16), HexDigit(x % 16) >>

RECURSIVE StripZeros(_)
StripZeros(s) ==
    IF Len(s) > 1 /\ Head(s) = 48 THEN StripZeros(Tail(s)) ELSE s

\* Number.prototype.toString(16) of a non-negative value given as halves
ToHex(h) == StripZeros(Hex4(h[1]) \o Hex4(h[2]))

generateProductId(groupName, productName) ==
    ToHex(AbsHash(HashOf(Trim(groupName) \o <<UNDERSCORE>> \o Trim(productName))))

(***************************************************************************)
(* normalizeData, src/utils.ts:18-31.  A raw group is a record             *)
(* [groupName, products]; a raw product is an object.                      *)
(***************************************************************************)
IsString(v) == v.t = "str"

\* mutant: { id, groupName, searchString, ...p }, the fields of p written last
MakeProductSpreadLast(groupName, p) ==
    LET name == Get(p, "productName").s
        stamps == << <<"id", Str(generateProductId(groupName, name))>>,
                     <<"groupName", Str(groupName)>>,
                     <<"searchString",
                       Str(ToLowerCase(groupName) \o <<SPACE>> \o ToLowerCase(name))>> >>
        Spread[i \in 0..Len(p)] ==
            IF i = 0 THEN stamps ELSE Set(Spread[i - 1], p[i][1], p[i][2])
    IN  Spread[Len(p)]

\* one pushed element: { ...p, id, groupName, searchString }
MakeProduct(groupName, p) ==
    LET name == Get(p, "productName").s
        withId == Set(p, "id", Str(generateProductId(groupName, name)))
        withGroup == Set(withId, "groupName", Str(groupName))
    IN  Set(withGroup, "searchString",
            Str(ToLowerCase(groupName) \o <<SPACE>> \o ToLowerCase(name)))

\* p.productName.trim() / .toLowerCase() throw a TypeError on a non-string
NormalizeThrows(rawGroups) ==
    \E g \in 1..Len(rawGroups) :
        \E i \in 1..Len(rawGroups[g].products) :
            ~IsString(Get(rawGroups[g].products[i], "productName"))

\* mutant: the products of a later group come first
RECURSIVE normalizeDataLastGroupFirst(_)
normalizeDataLastGroupFirst(rawGroups) ==
    IF rawGroups = <<>> THEN <<>>
    ELSE normalizeDataLastGroupFirst(Tail(rawGroups))
         \o [i \in 1..Len(Head(rawGroups).products) |->
                MakeProduct(Head(rawGroups).groupName, Head(rawGroups).products[i])]

RECURSIVE normalizeData(_)
normalizeData(rawGroups) ==
    IF rawGroups = <<>> THEN <<>>
    ELSE LET group == Head(rawGroups)
         IN  [i \in 1..Len(group.products) |-> MakeProduct(group.groupName, group.products[i])]
             \o normalizeData(Tail(rawGroups))

(***************************************************************************)
(* JSON.stringify / JSON.parse on arrays of flat objects.  A text is a     *)
(* sequence of tokens; a member whose value is undefined is not written.   *)
(***************************************************************************)
Tok(k, key, v) == [k |-> k, key |-> key, v |-> v]
LBracket == Tok("[", "", Undefined)
RBracket == Tok("]", "", Undefined)
LBrace == Tok("{", "", Undefined)
RBrace == Tok("}", "", Undefined)

RECURSIVE StringifyMembers(_)
StringifyMembers(o) ==
    IF o = <<>> THEN <<>>
    ELSE (IF Head(o)[2].t = "undef" THEN <<>> ELSE <<Tok("m", Head(o)[1], Head(o)[2])>>)
         \o StringifyMembers(Tail(o))

RECURSIVE StringifyItems(_)
StringifyItems(a) ==
    IF a = <<>> THEN <<>>
    ELSE <<LBrace>> \o StringifyMembers(Head(a)) \o <<RBrace>> \o StringifyItems(Tail(a))

JSONstringify(a) == <<LBracket>> \o StringifyItems(a) \o <<RBracket>>

\* cur: the object being read; acc: the objects read so far
RECURSIVE ParseItems(_, _, _)
ParseItems(text, cur, acc) ==
    IF text = <<>> THEN acc
    ELSE LET tk == Head(text)
         IN  IF tk.k = "m" THEN ParseItems(Tail(text), Append(cur, <<tk.key, tk.v>>), acc)
             ELSE IF tk.k = "}" THEN ParseItems(Tail(text), <<>>, Append(acc, cur))
             ELSE ParseItems(Tail(text), <<>>, acc)

JSONparse(text) == ParseItems(text, <<>>, <<>>)

\* the comparison of line 30: JSON.stringify(a) !== JSON.stringify(b)
StringifyObject(o) == <<LBrace>> \o StringifyMembers(o) \o <<RBrace>>

(***************************************************************************)
(* Storage wrappers, src/utils.ts:35-69.  localStorage maps a key to       *)
(* [has, text]; getItem of an absent key is null.                          *)
(***************************************************************************)
KEY_PRODUCTS == "stocksync_products"
KEY_CART == "stocksync_cart"
KEY_LAST_SYNC == "stocksync_last_sync"
Keys == {KEY_PRODUCTS, KEY_CART, KEY_LAST_SYNC}

Absent == [has |-> FALSE, text |-> <<>>]
Present(text) == [has |-> TRUE, text |-> text]

\* `data ? ... : ...` : null and the empty string are falsy
Truthy(entry) == entry.has /\ entry.text # <<>>

setItem(ls, key, text) == [ls EXCEPT ![key] = Present(text)]
removeItem(ls, key) == [ls EXCEPT ![key] = Absent]

saveProductsToStorage(ls, list) == setItem(ls, KEY_PRODUCTS, JSONstringify(list))

loadProductsFromStorage(ls) ==
    IF Truthy(ls[KEY_PRODUCTS]) THEN JSONparse(ls[KEY_PRODUCTS].text) ELSE <<>>

\* mutant: the cart is not written
saveCartToStorageSkipped(ls, list) == ls

saveCartToStorage(ls, list) == setItem(ls, KEY_CART, JSONstringify(list))

loadCartFromStorage(ls) ==
    IF Truthy(ls[KEY_CART]) THEN JSONparse(ls[KEY_CART].text) ELSE <<>>

saveLastSync(ls, date) == setItem(ls, KEY_LAST_SYNC, date)

\* string | null
Null == [isNull |-> TRUE, s |-> <<>>]
Some(s) == [isNull |-> FALSE, s |-> s]

loadLastSync(ls) ==
    IF ls[KEY_LAST_SYNC].has THEN Some(ls[KEY_LAST_SYNC].text) ELSE Null

\* mutant: the cart key is left behind
clearAllDataButCart(ls) == removeItem(removeItem(ls, KEY_PRODUCTS), KEY_LAST_SYNC)

clearAllData(ls) ==
    removeItem(removeItem(removeItem(ls, KEY_PRODUCTS), KEY_CART), KEY_LAST_SYNC)

\* the length of a JSON text: a token counts for one character, a string value
\* for its characters more
RECURSIVE JsonLength(_)
JsonLength(text) ==
    IF text = <<>> THEN 0 ELSE 1 + Len(Head(text).v.s) + JsonLength(Tail(text))

\* setItem throws QuotaExceededError only for a write that grows the stored data
MayExceedQuota(ls, key, text) ==
    IF key = KEY_LAST_SYNC THEN Len(text) > Len(ls[key].text)
    ELSE JsonLength(text) > JsonLength(ls[key].text)

(***************************************************************************)
(* performSync, src/services/syncService.ts:6-62.                          *)
(***************************************************************************)
IdOf(p) == Get(p, "id")

\* new Map(list.map(p => [p.id, p])).has(id)
MapHas(list, id) == \E i \in 1..Len(list) : IdOf(list[i]) = id

\* new Map(list.map(p => [p.id, p])).get(id): a later entry overwrites an earlier one
MapGet(list, id) ==
    list[CHOOSE i \in 1..Len(list) :
            /\ IdOf(list[i]) = id
            /\ \A j \in (i + 1)..Len(list) : IdOf(list[j]) # id]

\* line 30: JSON.stringify(existing) !== JSON.stringify(np)
ContentChanged(existing, np) == StringifyObject(existing) # StringifyObject(np)

\* mutant: the loop runs over the entries of newMap, one per distinct id
CountAddedPerId(currentProducts, newProducts) ==
    Cardinality({IdOf(newProducts[i]) : i \in 1..Len(newProducts)}
                \ {IdOf(currentProducts[i]) : i \in 1..Len(currentProducts)})

\* lines 24-34
CountAdded(currentProducts, newProducts) ==
    Cardinality({i \in 1..Len(newProducts) : ~MapHas(currentProducts, IdOf(newProducts[i]))})

CountUpdated(currentProducts, newProducts) ==
    Cardinality({i \in 1..Len(newProducts) :
        /\ MapHas(currentProducts, IdOf(newProducts[i]))
        /\ ContentChanged(MapGet(currentProducts, IdOf(newProducts[i])), newProducts[i])})

\* mutant: the loop runs over the entries of currentMap, one per distinct id
CountDeletedPerId(currentProducts, newProducts) ==
    Cardinality({IdOf(currentProducts[i]) : i \in 1..Len(currentProducts)}
                \ {IdOf(newProducts[i]) : i \in 1..Len(newProducts)})

\* lines 37-41
CountDeleted(currentProducts, newProducts) ==
    Cardinality({i \in 1..Len(currentProducts) : ~MapHas(newProducts, IdOf(currentProducts[i]))})

\* new Date().toLocaleString(): a non-empty text fixed by the second of the clock
ToLocaleString(t) == <<48 + ((t \div 10) % 10), 48 + (t % 10)>>

NoStats == [added |-> 0, updated |-> 0, deleted |-> 0, lastSynced |-> Null]

Thrown(ls, cause) ==
    [ok |-> FALSE, cause |-> cause, ls |-> ls, products |-> <<>>, stats |-> NoStats]

\* mutant: the fetched list is merged into the cached one
WriteCacheMerged(ls, newProducts, now) ==
    saveLastSync(
        saveProductsToStorage(ls,
            SelectSeq(loadProductsFromStorage(ls), LAMBDA p : ~MapHas(newProducts, IdOf(p)))
            \o newProducts),
        now)

\* mutant: the sync also rewrites the cart, dropping entries of products that are gone
WriteCachePruningCart(ls, newProducts, now) ==
    saveCartToStorage(
        saveLastSync(saveProductsToStorage(ls, newProducts), now),
        SelectSeq(loadCartFromStorage(ls), LAMBDA c : MapHas(newProducts, Get(c, "productId"))))

\* what lines 45-47 leave in storage: both writes done
WriteCache(ls, newProducts, now) == saveLastSync(saveProductsToStorage(ls, newProducts), now)

\* lines 16-57, once newProducts, currentProducts and now are computed
DiffAndStore(ls, newProducts, currentProducts, now, quota1, quota2) ==
    IF quota1 THEN Thrown(ls, "saveProducts")
    ELSE IF quota2 THEN Thrown(saveProductsToStorage(ls, newProducts), "saveLastSync")
    ELSE [ok |-> TRUE, cause |-> "none",
          ls |-> WriteCache(ls, newProducts, now),
          products |-> newProducts,
          stats |-> [added |-> CountAdded(currentProducts, newProducts),
                     updated |-> CountUpdated(currentProducts, newProducts),
                     deleted |-> CountDeleted(currentProducts, newProducts),
                     lastSynced |-> Some(now)]]

\* response: [kind, body]; quota1, quota2: whether the setItem of line 45, of line 47
\* throws QuotaExceededError.  The result carries the storage the call leaves behind.
performSync(ls, response, clockNow, quota1, quota2) ==
    IF response.kind # "json" THEN Thrown(ls, response.kind)
    ELSE IF NormalizeThrows(response.body) THEN Thrown(ls, "normalize")
    ELSE DiffAndStore(ls, normalizeData(response.body), loadProductsFromStorage(ls),
                      ToLocaleString(clockNow), quota1, quota2)

(***************************************************************************)
(* Cart, src/App.tsx:328-353 and 766-788.                                  *)
(***************************************************************************)
\* Array.prototype.findIndex(i => i.productId === id); 0 stands for -1
FindIndex(list, key, id) ==
    IF \E i \in 1..Len(list) : Get(list[i], key) = id
    THEN CHOOSE i \in 1..Len(list) :
            /\ Get(list[i], key) = id
            /\ \A j \in 1..(i - 1) : Get(list[j], key) # id
    ELSE 0

\* parseInt of the selected option '1' | '2' | '3'
ParseInt(option) == IF option = "1" THEN 1 ELSE IF option = "2" THEN 2 ELSE 3

\* mutant: a blank note is let through
CommitRejectedNever(selectedOption, noteText) == FALSE

\* handleCommit returns without a call when the note is blank
CommitRejected(selectedOption, noteText) ==
    selectedOption = "note" /\ Trim(noteText) = <<>>

\* the argument handleCommit passes to addToCart
CommitItem(product, selectedOption, noteText) ==
    << <<"productId", Get(product, "id")>>,
       <<"productName", Get(product, "productName")>>,
       <<"rate", Get(product, "rate")>>,
       <<"sets", Num(IF selectedOption = "note" THEN 0 ELSE ParseInt(selectedOption))>>,
       <<"note", Str(IF selectedOption = "note" THEN noteText ELSE <<>>)>>,
       <<"imageUrl", Get(product, "imageUrl")>>,
       <<"groupName", Get(product, "groupName")>> >>

\* mutant: the item is always appended
addToCartAppending(prev, item) == Append(prev, item)

\* the updater of addToCart: prev => newCart
addToCart(prev, item) ==
    LET existingIdx == FindIndex(prev, "productId", Get(item, "productId"))
    IN  IF existingIdx >= 1
        THEN [prev EXCEPT ![existingIdx] = item]
        ELSE Append(prev, item)

\* mutant: the entries up to the matching one are dropped with it
removeFromCartSplicing(prev, id) ==
    LET idx == FindIndex(prev, "productId", id)
    IN  IF idx >= 1 THEN SubSeq(prev, idx + 1, Len(prev)) ELSE prev

\* the updater of removeFromCart: prev.filter(i => i.productId !== id)
removeFromCart(prev, id) ==
    SelectSeq(prev, LAMBDA i : Get(i, "productId") # id)

(***************************************************************************)
(* The order total of CartPage, src/App.tsx:577-583, and the line totals   *)
(* of the exported table, src/utils.ts:101-114, in JavaScript arithmetic.  *)
(***************************************************************************)
NaN == [t |-> "nan", s |-> <<>>, n |-> 0]
\* the number JSON.parse gives for a literal beyond the range of a double
Infinity == [t |-> "inf", s |-> <<>>, n |-> 0]

\* ToNumber of an operand: undefined (a property that is not there) is NaN
ToNumber(v) == IF v.t \in {"num", "inf"} THEN v ELSE NaN

\* a * b for a a non-negative integer
Times(a, b) ==
    LET x == ToNumber(a)
        y == ToNumber(b)
    IN  IF x.t = "nan" \/ y.t = "nan" THEN NaN
        ELSE IF y.t = "inf" THEN (IF x.n = 0 THEN NaN ELSE Infinity)
        ELSE Num(x.n * y.n)

\* a + b
Plus(a, b) ==
    LET x == ToNumber(a)
        y == ToNumber(b)
    IN  IF x.t = "nan" \/ y.t = "nan" THEN NaN
        ELSE IF x.t = "inf" \/ y.t = "inf" THEN Infinity
        ELSE Num(x.n + y.n)

\* cart.reduce((acc, item) => acc + (item.sets * item.rate), 0)
CartTotal(c) ==
    LET Reduce[i \in 0..Len(c)] ==
            IF i = 0 THEN Num(0)
            ELSE Plus(Reduce[i - 1], Times(Get(c[i], "sets"), Get(c[i], "rate")))
    IN  Reduce[Len(c)]

\* item.sets > 0 ? item.sets * item.rate : 0
LineTotal(item) ==
    IF Get(item, "sets").n > 0 THEN Times(Get(item, "sets"), Get(item, "rate")) ELSE Num(0)

\* the last column of tableData, before formatCurrency
TableLineTotals(c) == [i \in 1..Len(c) |-> LineTotal(c[i])]

(***************************************************************************)
(* Inputs: what the remote endpoint may answer, what the user may select.  *)
(***************************************************************************)
NameAa == <<65, 97>>
NameB == <<98>>
\* "BB": generateProductId gives it the id of "Aa" in every group
NameBB == <<66, 66>>
GroupG == <<71>>
\* " H"
GroupH == <<SPACE, 72>>
UrlU == <<117>>

RawProduct(name, quantity) ==
    << <<"productName", Str(name)>>, <<"quantity", Num(quantity)>>, <<"rate", Num(10)>>,
       <<"amount", Num(10 * quantity)>>, <<"imageUrl", Str(UrlU)>> >>

\* the same fields and values as RawProduct(name, quantity), written in another order
RawProductReordered(name, quantity) ==
    << <<"quantity", Num(quantity)>>, <<"productName", Str(name)>>, <<"rate", Num(10)>>,
       <<"amount", Num(10 * quantity)>>, <<"imageUrl", Str(UrlU)>> >>

\* a raw product that carries no imageUrl
RawProductNoImage(name, quantity) ==
    << <<"productName", Str(name)>>, <<"quantity", Num(quantity)>>, <<"rate", Num(10)>>,
       <<"amount", Num(10 * quantity)>> >>

\* a raw product that already carries fields named id, groupName and searchString
RawProductStamped(name, quantity) ==
    << <<"id", Str(<<122, 122>>)>>, <<"productName", Str(name)>>,
       <<"quantity", Num(quantity)>>, <<"groupName", Str(<<88>>)>>, <<"rate", Num(10)>>,
       <<"amount", Num(10 * quantity)>>, <<"searchString", Str(<<113>>)>> >>

\* a raw product that carries no productName (shape mismatch)
RawProductNoName == << <<"quantity", Num(1)>>, <<"rate", Num(10)>> >>

\* the raw products of the catalogs the diff is exercised on
RawProducts ==
    { RawProduct(NameAa, 1), RawProduct(NameAa, 2), RawProductReordered(NameAa, 1),
      RawProductStamped(NameB, 1) }

\* the raw products of the catalogs the whole application is exercised on
AppRawProducts == { RawProduct(NameAa, 1), RawProductNoImage(NameB, 1) }

SeqsUpTo(S, n) == UNION {[1..k -> S] : k \in 0..n}

\* the sequences of SeqsUpTo(S, n) that repeat no element
DistinctSeqsUpTo(S, n) ==
    { q \in SeqsUpTo(S, n) : \A i, j \in 1..Len(q) : q[i] = q[j] => i = j }

\* the catalogs of the stateful specifications: no group, or one group with one of
\* the product lists L (the diff and the cache see only the flattened list)
RawCatalogs(L) ==
    {<<>>} \cup { <<g>> : g \in [groupName : {GroupG}, products : L] }

MalformedCatalog == << [groupName |-> GroupG, products |-> <<RawProductNoName>>] >>

Failure(kind) == [kind |-> kind, body |-> <<>>]
Body(b) == [kind |-> "json", body |-> b]

\* fetch rejects | response.ok is false | response.json() rejects | a parsed body,
\* with any products in any order, repeated or not, or of the wrong shape
SyncResponses ==
    { Failure(k) : k \in {"reject", "notOk", "badJson"} }
    \cup { Body(b) : b \in RawCatalogs(SeqsUpTo(RawProducts, MaxProducts))
                          \cup {MalformedCatalog} }

\* the answers the whole application is exercised on: the fetch rejects, or a body
\* whose products are distinct
AppResponses ==
    { Failure("reject") }
    \cup { Body(b) : b \in RawCatalogs(DistinctSeqsUpTo(AppRawProducts, MaxProducts)) }

\* the state of the detail page at a commit: <<selectedOption, noteText>>; choosing
\* a number of sets empties the note text (App.tsx:497)
Selections ==
    { <<"1", <<>>>>, <<"2", <<>>>>, <<"3", <<>>>>,
      <<"note", <<>>>>, <<"note", <<SPACE>>>>, <<"note", <<120>>>> }

\* the raw products of the lists normalizeData is called with
FnRawProducts == { RawProduct(NameAa, 1), RawProductStamped(NameBB, 1) }

\* RawGroup[]: up to MaxGroups groups of up to MaxProducts products each
RawGroupLists ==
    SeqsUpTo([groupName : {GroupG, GroupH},
              products : SeqsUpTo(FnRawProducts, MaxProducts)], MaxGroups)

\* a raw product with the given rate; Undefined: the catalog gives it no rate
RawProductRated(name, rate) ==
    SelectSeq(<< <<"productName", Str(name)>>, <<"quantity", Num(1)>>, <<"rate", rate>>,
                 <<"amount", Num(10)>>, <<"imageUrl", Str(UrlU)>> >>,
              LAMBDA m : m[2] # Undefined)

\* the products the entries of an exported cart were committed from
RatedProducts ==
    { MakeProduct(GroupG, RawProductRated(NameAa, Num(10))),
      MakeProduct(GroupG, RawProductRated(NameB, Num(25))),
      MakeProduct(GroupH, RawProductRated(NameAa, Undefined)),
      MakeProduct(GroupH, RawProductRated(NameB, Infinity)) }

\* the entries handleCommit makes of them
CartEntries ==
    { CommitItem(p, sel[1], sel[2]) :
        p \in RatedProducts, sel \in {x \in Selections : ~CommitRejected(x[1], x[2])} }

\* the carts of up to MaxCart entries, one entry per product at most
ExportCarts ==
    { c \in SeqsUpTo(CartEntries, MaxCart) :
        \A i, j \in 1..Len(c) : Get(c[i], "productId") = Get(c[j], "productId") => i = j }

\* the characters of the enumerated names: " ", "a", "B"
Alphabet == {SPACE, 97, 66}

Names == SeqsUpTo(Alphabet, MaxLen)

\* longer arguments: ("Inks", " Black "), ("Inks", "Blue") whose hash is negative,
\* ("vjh", "bcwk") whose hash is -2^31
LongArguments ==
    { << <<73, 110, 107, 115>>, <<SPACE, 66, 108, 97, 99, 107, SPACE>> >>,
      << <<73, 110, 107, 115>>, <<66, 108, 117, 101>> >>,
      << <<118, 106, 104>>, <<98, 99, 119, 107>> >> }

\* the arguments <<groupName, productName>> generateProductId is called with
IdArguments == (Names \X Names) \cup LongArguments

(***************************************************************************)
(* State.                                                                  *)
(***************************************************************************)
VARIABLES
    storage,    \* localStorage: key -> [has, text]
    products,   \* useState<Product[]>
    cart,       \* useState<CartItem[]>
    lastSync,   \* useState<string | null>
    isSyncing,  \* useState(false)
    phase,      \* "boot": rendered, effect not yet run; "running"; "crashed": tree unmounted
    inflight,   \* fetches of performSync not yet settled
    clock,      \* wall clock, in seconds
    ev          \* the last handler that ran, with its arguments and its result

vars == <<storage, products, cart, lastSync, isSyncing, phase, inflight, clock, ev>>

NoResponse == [kind |-> "none", body |-> <<>>]

NothingBefore == [products |-> 0, cart |-> 0, synced |-> FALSE]

\* op: the handler; ok, cause, stats: the outcome of a sync; response: what a
\* successful sync fetched; item, id: the
\* argument of a cart call; before: what clearData or removeFromCart found; args,
\* result: the arguments and the result of a call of a function of utils.ts (a
\* generated id is held in id)
Event(op) ==
    [op |-> op, ok |-> TRUE, cause |-> "none", response |-> NoResponse,
     stats |-> NoStats, item |-> <<>>, id |-> Undefined, before |-> NothingBefore,
     args |-> <<>>, result |-> <<>>]

Init ==
    /\ storage = [k \in Keys |-> Absent]
    /\ products = <<>>
    /\ cart = <<>>
    /\ lastSync = Null
    /\ isSyncing = FALSE
    /\ phase = "boot"
    /\ inflight = 0
    /\ clock = 0
    /\ ev = Event("init")

\* useEffect of App, App.tsx:738-750
InitialLoad ==
    /\ phase = "boot"
    /\ products' = loadProductsFromStorage(storage)
    /\ cart' = loadCartFromStorage(storage)
    /\ lastSync' = IF Truthy(storage[KEY_LAST_SYNC]) THEN loadLastSync(storage) ELSE lastSync
    /\ phase' = "running"
    /\ ev' = Event("load")
    /\ UNCHANGED <<storage, isSyncing, inflight, clock>>

\* mutant: a trigger that stays available while a sync is outstanding
StartSyncWhileSyncing ==
    /\ phase = "running"
    /\ isSyncing' = TRUE
    /\ inflight' = inflight + 1
    /\ ev' = Event("syncStart")
    /\ UNCHANGED <<storage, products, cart, lastSync, phase, clock>>

\* handleSync up to the fetch of performSync, App.tsx:752-755; both triggers of the
\* home page are unavailable while isSyncing (App.tsx:166, 197)
StartSync ==
    /\ phase = "running"
    /\ ~isSyncing
    /\ isSyncing' = TRUE
    /\ inflight' = inflight + 1
    /\ ev' = Event("syncStart")
    /\ UNCHANGED <<storage, products, cart, lastSync, phase, clock>>

\* mutant: setIsSyncing(false) at the end of the try block, not in a finally
FetchSettlesNoFinally(response, quota1, quota2) ==
    /\ inflight > 0
    /\ \E r \in {performSync(storage, response, clock, quota1, quota2)} :
       LET mounted == phase = "running"
       IN  /\ storage' = r.ls
           /\ products' = IF r.ok /\ mounted THEN r.products ELSE products
           /\ lastSync' = IF r.ok /\ mounted THEN r.stats.lastSynced ELSE lastSync
           /\ isSyncing' = IF r.ok /\ mounted THEN FALSE ELSE isSyncing
           /\ ev' = [Event("sync") EXCEPT !.ok = r.ok, !.cause = r.cause,
                        !.response = IF r.ok THEN response ELSE NoResponse,
                        !.stats = r.stats]
    /\ inflight' = inflight - 1
    /\ UNCHANGED <<cart, phase, clock>>

\* the fetch settles: the rest of performSync, then the rest of handleSync
\* (App.tsx:755-763).  The setters do nothing once the tree is unmounted.
FetchSettles(response, quota1, quota2) ==
    /\ inflight > 0
    /\ \E r \in {performSync(storage, response, clock, quota1, quota2)} :
       LET mounted == phase = "running"
       IN  /\ storage' = r.ls
           /\ products' = IF r.ok /\ mounted THEN r.products ELSE products
           /\ lastSync' = IF r.ok /\ mounted THEN r.stats.lastSynced ELSE lastSync
           /\ isSyncing' = IF mounted THEN FALSE ELSE isSyncing
           /\ ev' = [Event("sync") EXCEPT !.ok = r.ok, !.cause = r.cause,
                        !.response = IF r.ok THEN response ELSE NoResponse,
                        !.stats = r.stats]
    /\ inflight' = inflight - 1
    /\ UNCHANGED <<cart, phase, clock>>

\* which of the two writes of a sync may hit the quota
QuotaChoices(response) ==
    {<<FALSE, FALSE>>}
    \cup (IF /\ response.kind = "json"
              /\ ~NormalizeThrows(response.body)
              /\ MayExceedQuota(storage, KEY_PRODUCTS,
                                JSONstringify(normalizeData(response.body)))
          THEN {<<TRUE, FALSE>>} ELSE {})
    \cup (IF /\ response.kind = "json"
              /\ ~NormalizeThrows(response.body)
              /\ MayExceedQuota(storage, KEY_LAST_SYNC, ToLocaleString(clock))
          THEN {<<FALSE, TRUE>>} ELSE {})

SyncEnds(R) == \E response \in R : \E q \in QuotaChoices(response) :
                   FetchSettles(response, q[1], q[2])

\* the product the detail page shows for the id of its route (App.tsx:267-268)
PageProduct(id) == products[FindIndex(products, "id", id)]

\* handleCommit then the updater of addToCart, App.tsx:328-353, 766-780
AddToCart(id, selectedOption, noteText) ==
    /\ phase = "running"
    /\ MapHas(products, id)
    /\ ~CommitRejected(selectedOption, noteText)
    /\ \E item \in {CommitItem(PageProduct(id), selectedOption, noteText)} :
       \E newCart \in {addToCart(cart, item)} :
           /\ storage' = saveCartToStorage(storage, newCart)
           /\ cart' = newCart
           /\ ev' = [Event("addToCart") EXCEPT !.item = item]
    /\ UNCHANGED <<products, lastSync, isSyncing, phase, inflight, clock>>

\* removeFromCart, App.tsx:782-788
RemoveFromCart(id) ==
    /\ phase = "running"
    /\ \E newCart \in {removeFromCart(cart, id)} :
           /\ storage' = saveCartToStorage(storage, newCart)
           /\ cart' = newCart
           /\ ev' = [Event("removeFromCart") EXCEPT !.id = id,
                        !.before = [products |-> Len(products), cart |-> Len(cart),
                                    synced |-> ~lastSync.isNull]]
    /\ UNCHANGED <<products, lastSync, isSyncing, phase, inflight, clock>>

\* saveCartToStorage throws inside the updater of addToCart: the error escapes the
\* render and React unmounts the tree, no error boundary being mounted
AddToCartQuota(id, selectedOption, noteText) ==
    /\ phase = "running"
    /\ MapHas(products, id)
    /\ ~CommitRejected(selectedOption, noteText)
    /\ \E item \in {CommitItem(PageProduct(id), selectedOption, noteText)} :
           /\ MayExceedQuota(storage, KEY_CART, JSONstringify(addToCart(cart, item)))
           /\ ev' = [Event("crash") EXCEPT !.ok = FALSE, !.cause = "saveCart", !.item = item]
    /\ phase' = "crashed"
    /\ products' = <<>>
    /\ cart' = <<>>
    /\ lastSync' = Null
    /\ isSyncing' = FALSE
    /\ UNCHANGED <<storage, inflight, clock>>

\* saveCartToStorage throws inside the updater of removeFromCart (the first write of
\* the cart key, "[]" where there was nothing)
RemoveFromCartQuota(id) ==
    /\ phase = "running"
    /\ MayExceedQuota(storage, KEY_CART, JSONstringify(removeFromCart(cart, id)))
    /\ ev' = [Event("crash") EXCEPT !.ok = FALSE, !.cause = "saveCart", !.id = id]
    /\ phase' = "crashed"
    /\ products' = <<>>
    /\ cart' = <<>>
    /\ lastSync' = Null
    /\ isSyncing' = FALSE
    /\ UNCHANGED <<storage, inflight, clock>>

\* mutant: clearData resets the state in memory and leaves localStorage alone
ClearDataInMemoryOnly ==
    /\ phase = "running"
    /\ products' = <<>>
    /\ cart' = <<>>
    /\ lastSync' = Null
    /\ ev' = [Event("clearData") EXCEPT
                !.before = [products |-> Len(products), cart |-> Len(cart),
                            synced |-> ~lastSync.isNull]]
    /\ UNCHANGED <<storage, isSyncing, phase, inflight, clock>>

\* clearData, App.tsx:790-795
ClearData ==
    /\ phase = "running"
    /\ storage' = clearAllData(storage)
    /\ products' = <<>>
    /\ cart' = <<>>
    /\ lastSync' = Null
    /\ ev' = [Event("clearData") EXCEPT
                !.before = [products |-> Len(products), cart |-> Len(cart),
                            synced |-> ~lastSync.isNull]]
    /\ UNCHANGED <<isSyncing, phase, inflight, clock>>

\* the page is loaded again: a new JavaScript context over the same localStorage
Reload ==
    /\ phase # "boot"
    /\ products' = <<>>
    /\ cart' = <<>>
    /\ lastSync' = Null
    /\ isSyncing' = FALSE
    /\ phase' = "boot"
    /\ inflight' = 0
    /\ ev' = Event("reload")
    /\ UNCHANGED <<storage, clock>>

\* a second of wall-clock time passes
Tick ==
    /\ clock < MaxClock
    /\ clock' = clock + 1
    /\ UNCHANGED <<storage, products, cart, lastSync, isSyncing, phase, inflight, ev>>

\* the ids a handler may be called with: those of the catalog and of the cart
KnownIds ==
    {IdOf(products[i]) : i \in 1..Len(products)}
    \cup {Get(cart[i], "productId") : i \in 1..Len(cart)}

Commit(S) == \E id \in KnownIds : \E sel \in S : AddToCart(id, sel[1], sel[2])

CommitCrashes(S) == \E id \in KnownIds : \E sel \in S : AddToCartQuota(id, sel[1], sel[2])

Remove == \E id \in KnownIds : RemoveFromCart(id)

RemoveCrashes == \E id \in KnownIds : RemoveFromCartQuota(id)

Next ==
    \/ InitialLoad
    \/ StartSync
    \/ SyncEnds(AppResponses)
    \/ Commit(Selections)
    \/ CommitCrashes(Selections)
    \/ Remove
    \/ RemoveCrashes
    \/ ClearData
    \/ Reload
    \/ Tick

Spec == Init /\ [][Next]_vars

\* a fetch that got no answer is rejected by the network stack
FetchTimesOut == FetchSettles(Failure("reject"), FALSE, FALSE)

\* a fetch resolves or rejects: one that is in flight does not stay so for ever
SpecLive == Spec /\ WF_vars(FetchTimesOut)

\* the synchronisation alone, over the richer catalogs
NextSync ==
    \/ InitialLoad
    \/ StartSync
    \/ SyncEnds(SyncResponses)
    \/ Tick

SpecSync == Init /\ [][NextSync]_vars

\* a call generateProductId(groupName, productName), src/utils.ts:6-16
CallGenerateProductId(groupName, productName) ==
    /\ ev' = [Event("generateProductId") EXCEPT
                !.args = <<groupName, productName>>,
                !.id = Str(generateProductId(groupName, productName))]
    /\ UNCHANGED <<storage, products, cart, lastSync, isSyncing, phase, inflight, clock>>

GenerateId == \E a \in IdArguments : CallGenerateProductId(a[1], a[2])

\* the functions of utils.ts, called one after the other on enumerated arguments
NextFn ==
    \/ GenerateId

SpecFn == Init /\ [][NextFn]_vars

\* a call that has its arguments and has not run yet
Pending(op, args) == [Event(op) EXCEPT !.ok = FALSE, !.cause = "pending", !.args = args]

Returned(e, op) == e.op = op /\ e.cause = "none"

\* normalizeData is about to be called on one of the lists
InitNormalize ==
    /\ storage = [k \in Keys |-> Absent]
    /\ products = <<>>
    /\ cart = <<>>
    /\ lastSync = Null
    /\ isSyncing = FALSE
    /\ phase = "boot"
    /\ inflight = 0
    /\ clock = 0
    /\ \E rawGroups \in RawGroupLists : ev = Pending("normalizeData", rawGroups)

\* the call normalizeData(rawGroups), src/utils.ts:18-31
CallNormalizeData ==
    /\ ev.op = "normalizeData" /\ ev.cause = "pending"
    /\ ev' = [ev EXCEPT !.ok = TRUE, !.cause = "none", !.result = normalizeData(ev.args)]
    /\ UNCHANGED <<storage, products, cart, lastSync, isSyncing, phase, inflight, clock>>

NextNormalize ==
    \/ CallNormalizeData

SpecNormalize == InitNormalize /\ [][NextNormalize]_vars

\* the cart page is about to export one of the carts
InitExport ==
    /\ storage = [k \in Keys |-> Absent]
    /\ products = <<>>
    /\ cart = <<>>
    /\ lastSync = Null
    /\ isSyncing = FALSE
    /\ phase = "boot"
    /\ inflight = 0
    /\ clock = 0
    /\ \E c \in ExportCarts : ev = Pending("generateAndSharePDF", c)

\* handleConfirmShare: the total of CartPage (App.tsx:578) is handed with the cart
\* to generateAndSharePDF, which computes the rows of the table (utils.ts:101-114)
ConfirmShare ==
    /\ ev.op = "generateAndSharePDF" /\ ev.cause = "pending"
    /\ ev' = [ev EXCEPT !.ok = TRUE, !.cause = "none",
                        !.result = [total |-> CartTotal(ev.args),
                                    lineTotals |-> TableLineTotals(ev.args)]]
    /\ UNCHANGED <<storage, products, cart, lastSync, isSyncing, phase, inflight, clock>>

NextExport ==
    \/ ConfirmShare

SpecExport == InitExport /\ [][NextExport]_vars

(***************************************************************************)
(* Properties.                                                             *)
(***************************************************************************)
\* this step is a fetch settling: the rest of performSync and of handleSync ran
SyncStep == ev'.op = "sync" /\ inflight' = inflight - 1

\* the list performSync loaded (before the step) and the list it normalized
CachedBefore == loadProductsFromStorage(storage)
FetchedIn(e) == normalizeData(e.response.body)

Ids(list) == {IdOf(list[i]) : i \in 1..Len(list)}

KeysOf(o) == {o[i][1] : i \in 1..Len(o)}

\* deep comparison of the values of all fields, whatever the order of the keys
DeepEqual(a, b) == \A k \in KeysOf(a) \cup KeysOf(b) : Get(a, k) = Get(b, k)

\* how many entries of list carry an id outside ids
NotIn(list, ids) == Cardinality({i \in 1..Len(list) : IdOf(list[i]) \notin ids})

\* how many entries of new have a cached entry with their id (the one a lookup by
\* id yields) that differs from them in the value of some field
DeepChanged(cached, new) ==
    Cardinality({i \in 1..Len(new) :
        /\ IdOf(new[i]) \in Ids(cached)
        /\ ~DeepEqual(MapGet(cached, IdOf(new[i])), new[i])})

SyncSucceeded == ev.op = "sync" /\ ev.ok
SyncFailed == ev.op = "sync" /\ ~ev.ok

\* C1 (as claimed): whenever performSync fails, by a rejected fetch, a status that is
\* not OK, a malformed body or any later step throwing, the persisted product cache
\* and the persisted last-sync marker are what they were before the call.
C1_FailedSyncWritesNothing ==
    [][(SyncStep /\ ~ev'.ok) =>
          /\ storage'[KEY_PRODUCTS] = storage[KEY_PRODUCTS]
          /\ storage'[KEY_LAST_SYNC] = storage[KEY_LAST_SYNC]]_vars

\* C2: after a successful performSync the persisted product cache reads back as
\* exactly the normalized fetched catalog (nothing of the previous cache is merged
\* in) and the persisted marker is the timestamp returned in stats.lastSynced.
C2_SuccessReplacesCache ==
    SyncSucceeded =>
        /\ ev.response.kind = "json"
        /\ loadProductsFromStorage(storage) = FetchedIn(ev)
        /\ loadLastSync(storage) = ev.stats.lastSynced
        /\ ~ev.stats.lastSynced.isNull

\* a successful sync that dropped a cached product and kept a non-empty catalog
C2_Witness ==
    /\ SyncSucceeded
    /\ ev.stats.deleted > 0
    /\ Len(loadProductsFromStorage(storage)) > 0

\* C3: 'added' is the number of fetched products whose id does not occur in the
\* cached list; a fetched product whose id is cached is not counted.
C3_AddedCount ==
    [][(SyncStep /\ ev'.ok) =>
          ev'.stats.added = NotIn(FetchedIn(ev'), Ids(CachedBefore))]_vars

\* a sync that counted one fetched product as added and another one not
C3_Witness ==
    /\ SyncSucceeded
    /\ ev.stats.added = 1
    /\ Len(FetchedIn(ev)) = 2

\* C4 (as claimed): 'updated' is the number of fetched products whose id is cached
\* and whose field values differ from the cached entry's under a deep comparison; a
\* fetched product with the same value in every field is not counted.
C4_UpdatedCountDeep ==
    [][(SyncStep /\ ev'.ok) =>
          ev'.stats.updated = DeepChanged(CachedBefore, FetchedIn(ev'))]_vars

\* C5: 'deleted' is the number of cached products whose id does not occur in the
\* fetched list.
C5_DeletedCount ==
    [][(SyncStep /\ ev'.ok) =>
          ev'.stats.deleted = NotIn(CachedBefore, Ids(FetchedIn(ev')))]_vars

\* a sync that dropped both entries of a two-product cache sharing one id
C5_Witness ==
    /\ SyncSucceeded
    /\ ev.stats.deleted = 2
    /\ ev.stats.added = 1

PidOf(c) == Get(c, "productId")
CartIds(c) == {PidOf(c[i]) : i \in 1..Len(c)}

\* this step is a call of addToCart / of removeFromCart that ran to its end
AddStep == ev'.op = "addToCart" /\ clock' = clock
RemoveStep == ev'.op = "removeFromCart" /\ clock' = clock

\* C6: a synchronization, successful or failed, leaves the cart as it was, in
\* memory and in storage; entries of products that left the cache stay.
C6_SyncLeavesCart ==
    [][SyncStep => (cart' = cart /\ storage'[KEY_CART] = storage[KEY_CART])]_vars

\* after a successful sync the cart, in memory and in storage, holds an entry whose
\* product is not in the product cache any more
C6_Witness ==
    /\ SyncSucceeded
    /\ CartIds(cart) \ Ids(loadProductsFromStorage(storage)) # {}
    /\ CartIds(loadCartFromStorage(storage)) \ Ids(products) # {}

\* C7: addToCart(item) replaces the entry with item.productId at its position,
\* leaving the length and every other entry alone, or appends item when there is no
\* such entry; so the cart holds at most one entry per productId, and after an add
\* the entry of that productId is the item just added.
C7_AddReplacesOrAppends ==
    /\ [](\A i, j \in 1..Len(cart) : PidOf(cart[i]) = PidOf(cart[j]) => i = j)
    /\ [](ev.op = "addToCart" =>
            \E i \in 1..Len(cart) :
                /\ cart[i] = ev.item
                /\ \A j \in 1..Len(cart) : PidOf(cart[j]) = PidOf(ev.item) => j = i)
    /\ [][AddStep =>
            IF PidOf(ev'.item) \in CartIds(cart)
            THEN /\ Len(cart') = Len(cart)
                 /\ \A i \in 1..Len(cart) :
                       cart'[i] = IF PidOf(cart[i]) = PidOf(ev'.item) THEN ev'.item ELSE cart[i]
            ELSE cart' = Append(cart, ev'.item)]_vars

\* the first of two entries was replaced in place by a note selection
C7_Witness ==
    /\ ev.op = "addToCart"
    /\ Len(cart) = 2
    /\ cart[1] = ev.item
    /\ Get(ev.item, "sets") = Num(0)

C9_ClearEmptiesAll ==
    ev.op = "clearData" =>
        /\ products = <<>> /\ cart = <<>> /\ lastSync = Null
        /\ \A k \in Keys : ~storage[k].has
        /\ loadProductsFromStorage(storage) = <<>>
        /\ loadCartFromStorage(storage) = <<>>
        /\ loadLastSync(storage) = Null

\* clearData ran on a synced catalog with a non-empty cart
C9_Witness ==
    /\ ev.op = "clearData"
    /\ ev.before.products > 0
    /\ ev.before.cart > 0
    /\ ev.before.synced

\* two carts with the same entries: every property reads the same in both
SameCart(a, b) == Len(a) = Len(b) /\ \A i \in 1..Len(a) : DeepEqual(a[i], b[i])

\* C10: after every addToCart and removeFromCart, and so whenever the application
\* is running, the cart read back from storage is the cart in memory.
C10_CartPersisted ==
    phase = "running" => SameCart(loadCartFromStorage(storage), cart)

\* after an add the cart holds two entries, one of them without an image (a
\* property JSON.stringify does not write)
C10_Witness ==
    /\ ev.op = "addToCart"
    /\ Len(cart) = 2
    /\ \E i \in 1..Len(cart) : Get(cart[i], "imageUrl") = Undefined
    /\ loadCartFromStorage(storage) # cart

\* a cart entry that is a number of sets without a note, or a note without sets
Exclusive(c) ==
    \/ Get(c, "sets") \in {Num(1), Num(2), Num(3)} /\ Get(c, "note") = Str(<<>>)
    \/ Get(c, "sets") = Num(0) /\ IsString(Get(c, "note")) /\ Trim(Get(c, "note").s) # <<>>

\* C11: every cart entry, in memory and in storage, is an exclusive selection: sets
\* is 1, 2 or 3 and the note is empty, or sets is 0 and the note is not blank.
C11_ExclusiveSelection ==
    /\ \A i \in 1..Len(cart) : Exclusive(cart[i])
    /\ \A i \in 1..Len(loadCartFromStorage(storage)) :
           Exclusive(loadCartFromStorage(storage)[i])

\* a commit left a cart with an entry in sets mode and an entry in note mode
C11_Witness ==
    /\ ev.op = "addToCart"
    /\ \E i, j \in 1..Len(cart) :
           /\ Get(cart[i], "sets") = Num(3)
           /\ Get(cart[j], "sets") = Num(0) /\ Get(cart[j], "note") = Str(<<120>>)

\* s without its leading and trailing spaces: from its first to its last character
\* that is not a space
Stripped(s) ==
    LET inked == {i \in 1..Len(s) : s[i] # SPACE}
    IN  IF inked = {} THEN <<>>
        ELSE SubSeq(s, CHOOSE i \in inked : \A j \in inked : i <= j,
                       CHOOSE i \in inked : \A j \in inked : i >= j)

IsHexDigit(c) == (c >= 48 /\ c <= 57) \/ (c >= 97 /\ c <= 102)

GenerateCall(e) == e.op = "generateProductId"

\* C12: generateProductId returns an id for every pair of strings, and the same id
\* for two pairs whose group names are equal once trimmed and whose product names
\* are equal once trimmed.
C12_IdIgnoresSurroundingSpace ==
    /\ [](GenerateCall(ev) =>
            /\ IsString(ev.id) /\ ev.id.s # <<>>
            /\ \A i \in 1..Len(ev.id.s) : IsHexDigit(ev.id.s[i]))
    /\ [][(/\ GenerateCall(ev) /\ GenerateCall(ev')
            /\ Stripped(ev.args[1]) = Stripped(ev'.args[1])
            /\ Stripped(ev.args[2]) = Stripped(ev'.args[2])) => ev'.id = ev.id]_vars

\* generateProductId(" a", "B ") gave "177e4", the id of ("a", "B")
C12_Witness ==
    /\ GenerateCall(ev)
    /\ ev.args = << <<SPACE, 97>>, <<66, SPACE>> >>
    /\ ev.id = Str(<<49, 55, 55, 101, 52>>)

\* how many raw products the first n groups hold
RECURSIVE ProductsBefore(_, _)
ProductsBefore(rawGroups, n) ==
    IF n = 0 THEN 0
    ELSE Len(rawGroups[n].products) + ProductsBefore(rawGroups, n - 1)

StampedKeys == {"id", "groupName", "searchString"}

\* product carries every field of the raw product with its value, the three stamped
\* fields apart, and the name of the group
MadeFrom(product, groupName, raw) ==
    /\ \A k \in KeysOf(raw) \ StampedKeys : Get(product, k) = Get(raw, k)
    /\ KeysOf(product) = KeysOf(raw) \cup StampedKeys
    /\ Get(product, "groupName") = Str(groupName)

\* C13: normalizeData returns one product per raw product, the products of a group
\* after those of the groups before it and in their order within the group, entries
\* with one id all kept; its length is the sum of the lengths of the groups'
\* products, 0 for an empty list of groups.
C13_OneProductPerRawProduct ==
    Returned(ev, "normalizeData") =>
        /\ Len(ev.result) = ProductsBefore(ev.args, Len(ev.args))
        /\ ev.args = <<>> => ev.result = <<>>
        /\ \A g \in 1..Len(ev.args) : \A i \in 1..Len(ev.args[g].products) :
               MadeFrom(ev.result[ProductsBefore(ev.args, g - 1) + i],
                        ev.args[g].groupName, ev.args[g].products[i])

\* two groups gave four products, two of them with one id in the first group
C13_Witness ==
    /\ Returned(ev, "normalizeData")
    /\ Len(ev.args) = 2
    /\ Len(ev.result) = 4
    /\ IdOf(ev.result[1]) = IdOf(ev.result[2])
    /\ Get(ev.result[1], "productName") # Get(ev.result[2], "productName")
    /\ Get(ev.result[3], "groupName") # Get(ev.result[1], "groupName")

\* the id and the searchString of p are those of its groupName and productName
StampedRight(p) ==
    /\ IsString(Get(p, "groupName")) /\ IsString(Get(p, "productName"))
    /\ Get(p, "id") =
           Str(generateProductId(Get(p, "groupName").s, Get(p, "productName").s))
    /\ Get(p, "searchString") =
           Str(ToLowerCase(Get(p, "groupName").s) \o <<SPACE>>
               \o ToLowerCase(Get(p, "productName").s))

\* C14: every product of the persisted cache, which a successful sync fills with
\* the output of normalizeData, has id = generateProductId(groupName, productName)
\* and searchString = lowercased groupName, a space, lowercased productName, and
\* right after the sync the groupName of the group it was fetched in, whatever
\* fields named id, groupName or searchString the raw product carried.
C14_ProductsStamped ==
    /\ \A i \in 1..Len(loadProductsFromStorage(storage)) :
           StampedRight(loadProductsFromStorage(storage)[i])
    /\ SyncSucceeded =>
           \A g \in 1..Len(ev.response.body) :
               \A i \in 1..Len(ev.response.body[g].products) :
                   Get(loadProductsFromStorage(storage)
                           [ProductsBefore(ev.response.body, g - 1) + i], "groupName")
                       = Str(ev.response.body[g].groupName)

\* the cache holds the product made from the raw "b" that came with id "zz",
\* groupName "X" and searchString "q": id "1166a", groupName "G", searchString "g b"
C14_Witness ==
    /\ SyncSucceeded
    /\ \E i \in 1..Len(loadProductsFromStorage(storage)) :
           LET p == loadProductsFromStorage(storage)[i]
           IN  /\ p[1][1] = "id"
               /\ Get(p, "productName") = Str(NameB)
               /\ Get(p, "id") = Str(<<49, 49, 54, 54, 97>>)
               /\ Get(p, "groupName") = Str(GroupG)
               /\ Get(p, "searchString") = Str(<<103, SPACE, 98>>)

\* h * 31 + c modulo 2^32, on the four bytes of h, lowest first
TimesThirtyOnePlus(b, c) ==
    LET t1 == 31 * b[1] + c
        t2 == 31 * b[2] + (t1 \div 256)
        t3 == 31 * b[3] + (t2 \div 256)
        t4 == 31 * b[4] + (t3 \div 256)
    IN  <<t1 % 256, t2 % 256, t3 % 256, t4 % 256>>

\* the bytes of h after the characters of s, from h = 0
RECURSIVE RollingHash(_, _)
RollingHash(b, s) ==
    IF s = <<>> THEN b ELSE RollingHash(TimesThirtyOnePlus(b, Head(s)), Tail(s))

HexDigitValue(c) == IF c <= 57 THEN c - 48 ELSE c - 87

\* the number a hexadecimal text of at most 8 digits denotes, as <<high 16 bits,
\* low 16 bits>>
HexValue(s) ==
    LET d == [i \in 1..8 |-> IF i <= 8 - Len(s) THEN 0 ELSE HexDigitValue(s[i - (8 - Len(s))])]
    IN  << 4096 * d[1] + 256 * d[2] + 16 * d[3] + d[4],
           4096 * d[5] + 256 * d[6] + 16 * d[7] + d[8] >>

\* m is |h| for the signed 32-bit h of bytes b: h itself when its sign bit is clear,
\* and otherwise the number that added to the bit pattern of h gives 2^32
IsMagnitudeOf(m, b) ==
    LET hi == 256 * b[4] + b[3]
        lo == 256 * b[2] + b[1]
    IN  IF b[4] < 128 THEN m = <<hi, lo>>
        ELSE /\ (m[2] + lo) % 65536 = 0
             /\ (m[1] + hi + (m[2] + lo) \div 65536) = 65536

\* C15: the id is the hexadecimal text, without sign or leading zero, of |h|, h
\* being h * 31 + code(c) cut to 32 bits over the characters of trim(g) + "_" +
\* trim(p); so it denotes a number from 0 to 2^31.  ("Inks", " Black ") gives
\* "32d4568d".
C15_IdIsHexOfAbsHash ==
    GenerateCall(ev) =>
        /\ Len(ev.id.s) \in 1..8
        /\ \A i \in 1..Len(ev.id.s) : IsHexDigit(ev.id.s[i])
        /\ Len(ev.id.s) > 1 => ev.id.s[1] # 48
        /\ IsMagnitudeOf(HexValue(ev.id.s),
                         RollingHash(<<0, 0, 0, 0>>,
                             Stripped(ev.args[1]) \o <<UNDERSCORE>> \o Stripped(ev.args[2])))
        /\ HexValue(ev.id.s)[1] < 32768 \/ HexValue(ev.id.s) = <<32768, 0>>
        /\ ev.args = << <<73, 110, 107, 115>>, <<SPACE, 66, 108, 97, 99, 107, SPACE>> >>
              => ev.id.s = <<51, 50, 100, 52, 53, 54, 56, 100>>

\* generateProductId("vjh", "bcwk"), whose hash is -2^31, gave "80000000"
C15_Witness ==
    /\ GenerateCall(ev)
    /\ ev.args = << <<118, 106, 104>>, <<98, 99, 119, 107>> >>
    /\ ev.id = Str(<<56, 48, 48, 48, 48, 48, 48, 48>>)

\* C16: while isSyncing is true no trigger starts another sync (the header button is
\* disabled, the 'Sync Now' button is not rendered), so at most one fetch is in
\* flight at any time.
C16_OneSyncAtATime ==
    /\ [](inflight <= 1)
    /\ [](phase = "running" => (isSyncing <=> inflight = 1))
    /\ [][isSyncing => inflight' <= inflight]_vars

\* a sync is outstanding while the product list is empty, the state in which the
\* home page would otherwise offer 'Sync Now'
C16_Witness ==
    /\ phase = "running"
    /\ isSyncing
    /\ inflight = 1
    /\ products = <<>>
    /\ ev.op = "clearData"

\* C17: every sync that is started ends with isSyncing back to false, whether the
\* fetch rejects, performSync throws later or it returns; isSyncing is true from
\* the start of handleSync until then.
C17_SyncEnds ==
    /\ isSyncing ~> ~isSyncing
    /\ [][ev'.op = "syncStart" => isSyncing']_vars
    /\ [][(SyncStep /\ phase = "running") => (isSyncing /\ ~isSyncing')]_vars
    /\ [][(isSyncing /\ ~isSyncing') => (SyncStep \/ phase' # "running")]_vars

\* a sync whose second write threw has ended, and isSyncing is false
C17_Witness ==
    /\ phase = "running"
    /\ SyncFailed
    /\ ev.cause = "saveLastSync"
    /\ ~isSyncing

\* C18 (as claimed): while the application runs, between handlers, the products and
\* lastSync in memory are what loadProductsFromStorage and loadLastSync return,
\* whatever the interleaving of sync starts, successes, failures and clears; a
\* failed sync leaves the products and lastSync in memory unchanged.
C18_MemoryMatchesStorage ==
    /\ [](phase = "running" =>
            /\ products = loadProductsFromStorage(storage)
            /\ lastSync = loadLastSync(storage))
    /\ [][(SyncStep /\ ~ev'.ok) => (products' = products /\ lastSync' = lastSync)]_vars

\* this step is a successful sync that fetched the catalog the sync before it
\* fetched: the products in memory and in the cache are already its normalized list
SecondSyncStep ==
    /\ SyncStep /\ ev'.ok
    /\ ~lastSync.isNull
    /\ products = FetchedIn(ev')
    /\ CachedBefore = FetchedIn(ev')

\* C19 (as claimed): a second sync against an unchanged catalog reports added = 0,
\* updated = 0 and deleted = 0 and leaves the product cache reading back as the
\* first sync wrote it.
C19_SecondSyncChangesNothing ==
    [][SecondSyncStep =>
          /\ ev'.stats.added = 0
          /\ ev'.stats.updated = 0
          /\ ev'.stats.deleted = 0
          /\ loadProductsFromStorage(storage') = CachedBefore]_vars

\* this step is clearData running while a fetch is in flight
ClearDuringSync == ev'.op = "clearData" /\ ev' # ev /\ inflight = 1

\* this step is a fetch, in flight when clearData ran, settling with success
SyncAfterClear == ev.op = "clearData" /\ SyncStep /\ ev'.ok

\* C20: clearData runs while a fetch is in flight and leaves it in flight; when the
\* fetch then succeeds every fetched product counts as added and none as deleted,
\* the cache and the marker are written into the cleared storage and set in memory,
\* and the cart stays empty.
C20_ClearDuringSync ==
    /\ [][ClearDuringSync => (inflight' = 1 /\ isSyncing' = isSyncing)]_vars
    /\ [][SyncAfterClear =>
            /\ ev'.stats.added = Len(FetchedIn(ev'))
            /\ ev'.stats.deleted = 0
            /\ loadProductsFromStorage(storage') = FetchedIn(ev')
            /\ loadLastSync(storage') = ev'.stats.lastSynced
            /\ ~ev'.stats.lastSynced.isNull
            /\ products' = FetchedIn(ev')
            /\ lastSync' = ev'.stats.lastSynced
            /\ cart' = <<>>
            /\ loadCartFromStorage(storage') = <<>>]_vars

\* clearData has just run on a synced catalog and a non-empty cart while a fetch
\* was in flight, and the fetch is still in flight
C20_Witness ==
    /\ ev.op = "clearData"
    /\ ev.before.products > 0
    /\ ev.before.cart > 0
    /\ inflight = 1
    /\ isSyncing
    /\ \A k \in Keys : ~storage[k].has

\* the sum of f[1] .. f[n]
RECURSIVE SumTo(_, _)
SumTo(f, n) == IF n = 0 THEN 0 ELSE f[n] + SumTo(f, n - 1)

\* the sum, in JavaScript arithmetic, of the first n of the values
RECURSIVE ValueSum(_, _)
ValueSum(values, n) ==
    IF n = 0 THEN Num(0) ELSE Plus(ValueSum(values, n - 1), values[n])

IsNumber(v) == v.t = "num"

\* C21 (as claimed): for every cart the total handed to the export is the sum of
\* sets * rate over its entries, an entry with sets = 0 contributing 0, and it is
\* the sum of the line totals of the table (sets * rate when sets > 0, else 0).
C21_TotalIsSumOfLines ==
    Returned(ev, "generateAndSharePDF") =>
        /\ ev.result.total = ValueSum(ev.result.lineTotals, Len(ev.args))
        /\ \A i \in 1..Len(ev.args) :
               Get(ev.args[i], "sets") = Num(0) => ev.result.lineTotals[i] = Num(0)
        /\ (\A i \in 1..Len(ev.args) : IsNumber(Get(ev.args[i], "rate"))) =>
               /\ IsNumber(ev.result.total)
               /\ ev.result.total.n =
                      SumTo([i \in 1..Len(ev.args) |->
                                Get(ev.args[i], "sets").n * Get(ev.args[i], "rate").n],
                            Len(ev.args))

====
